---- MODULE Spec2Model ----
(***************************************************************************)
(* A model of aws_chain_secrets.secrets_manager.SecretsManager: a set of   *)
(* named secret bundles (plain dicts), a ChainMap laid over them, typed    *)
(* lookup, and fetch / update against AWS Secrets Manager.                 *)
(*                                                                         *)
(* Python objects are modelled with a heap: a dict object is a slot of     *)
(* `heap`, and `_secrets` and `_combined` hold references (slot numbers),  *)
(* so "the ChainMap sees the dict that set() and fetch() mutate" is a      *)
(* property of the model and not an assumption of it.                      *)
(***************************************************************************)
EXTENDS Integers, Sequences, FiniteSets, TLC

\* ------------------------------------------------------------------ bounds

\* How many operations one behaviour performs on the object after __init__.
MaxOps == 4

\* ----------------------------------------------------------- Python values

\* A Python value is [t |-> <type name>, v |-> <its repr>].
Str(s) == [t |-> "str", v |-> s]
PyInt(s) == [t |-> "int", v |-> s]
PyFloat(s) == [t |-> "float", v |-> s]
PyBool(s) == [t |-> "bool", v |-> s]
PyList(s) == [t |-> "list", v |-> s]
\* A tuple: a value a caller may pass to set(), which takes any value.
PyTuple(s) == [t |-> "tuple", v |-> s]
None == [t |-> "NoneType", v |-> "None"]

\* class Null, and the module-level instance `null`.
Null(s) == [t |-> "Null", v |-> s]
null == Null("null")

\* isinstance(x, Null)
IsInstanceNull(x) == x.t = "Null"

\* The names a caller passes around.
DeclarableNames == {"base", "mid", "override"}
UndeclaredName == "other"
AllNames == DeclarableNames \cup {UndeclaredName}
Keys == {"a", "b"}
\* The values a caller writes with set(); the store supplies other values.
SetValues == {Str("x")}
\* The casting types of cast().
CastingTypes == {"str", "int", "float", "bool", "passthrough"}
\* The (default, casting_type) pairs the model's callers pass to get(): the
\* call with neither (null, str), no default with another type, and the
\* defaults None and a second instance of Null, each with a type that would
\* change it if it were applied.
GetArgs ==
    { <<null, "str">>, <<null, "int">>, <<null, "passthrough">>,
      <<None, "str">>, <<None, "passthrough">>, <<Null("fresh"), "int">> }
\* The keyword arguments of one call, a dict: those of the names default and
\* casting_type the caller passes, with their values.
Kwargs(names, default, casting_type) ==
    [n \in names |-> IF n = "default" THEN default ELSE casting_type]
\* The keyword arguments of the calls considered: both, as in GetArgs, or one
\* of them, or none.
AllKwargs ==
    {Kwargs({"default", "casting_type"}, a[1], a[2]) : a \in GetArgs}
    \cup {Kwargs({}, null, "str"), Kwargs({"default"}, None, "str"),
          Kwargs({"casting_type"}, null, "int")}
\* The keyword arguments the model's callers pass to the object called as a
\* function: none, one, or both.
CallArgs ==
    {Kwargs({}, null, "str"), Kwargs({"default"}, None, "str"),
     Kwargs({"casting_type"}, null, "int"),
     Kwargs({"default", "casting_type"}, None, "passthrough"),
     Kwargs({"default", "casting_type"}, Null("fresh"), "int")}
\* The store's answer to one call: success, or the code of a ClientError.
Ok == "ok"
\* The error codes of a botocore ClientError.
ErrorCodes == {"ResourceNotFoundException", "AccessDeniedException"}

\* What a call does: it returns a value or raises an exception.
Return(value) == [kind |-> "return", exc |-> "", arg |-> "", val |-> value]
Raise(e, a) == [kind |-> "raise", exc |-> e, arg |-> a, val |-> None]

\* ------------------------------------------------------------------- dicts

\* A dict is a function from its keys; {} is the function of the empty domain.
EmptyDict == [k \in {} |-> None]

\* d[key] = value
DictSetItem(d, key, value) ==
    [k \in (DOMAIN d) \cup {key} |-> IF k = key THEN value ELSE d[k]]

\* d.update(other)
DictUpdate(d, other) ==
    [k \in (DOMAIN d) \cup (DOMAIN other) |-> IF k \in DOMAIN other THEN other[k] ELSE d[k]]

\* reversed(seq)
Reversed(seq) == [i \in 1..Len(seq) |-> seq[Len(seq) + 1 - i]]

\* The keys of {secret_name: {} for secret_name in secret_names}, in the
\* dict's insertion order: a repeated name keeps the place of its first
\* occurrence.
RECURSIVE ComprehensionKeys(_)
ComprehensionKeys(names) ==
    IF names = << >> THEN << >>
    ELSE LET front == ComprehensionKeys(SubSeq(names, 1, Len(names) - 1))
             last == names[Len(names)]
         IN  IF \E i \in 1..Len(front) : front[i] = last
             THEN front
             ELSE Append(front, last)

\* -------------------------------------------------------------------- JSON

\* The integer literals of the model; any other number literal is a float.
IntegerLiterals == {"0", "1", "2", "3"}

\* json.dumps of one value: a JSON value [j |-> <JSON type>, v |-> <literal>].
\* A list and a tuple are both written as an array, True as true, None as
\* null.
ToJson(value) ==
    CASE value.t = "str" -> [j |-> "string", v |-> value.v]
      [] value.t \in {"int", "float"} -> [j |-> "number", v |-> value.v]
      [] value.t = "bool" -> [j |-> IF value.v = "True" THEN "true" ELSE "false", v |-> ""]
      [] value.t = "NoneType" -> [j |-> "null", v |-> ""]
      [] value.t \in {"list", "tuple"} -> [j |-> "array", v |-> value.v]

\* json.loads of one JSON value.
FromJson(jv) ==
    CASE jv.j = "string" -> Str(jv.v)
      [] jv.j = "number" -> IF jv.v \in IntegerLiterals THEN PyInt(jv.v) ELSE PyFloat(jv.v)
      [] jv.j = "true" -> PyBool("True")
      [] jv.j = "false" -> PyBool("False")
      [] jv.j = "null" -> None
      [] jv.j = "array" -> PyList(jv.v)

\* json.dumps(d) for a dict d with str keys: the text of one JSON object.
json_dumps(d) == [k \in DOMAIN d |-> ToJson(d[k])]

\* json.loads(text) for the text of one JSON object.
json_loads(text) == [k \in DOMAIN text |-> FromJson(text[k])]

\* base64: the encoded form of a text wraps it; b64decode unwraps it.
b64encode(text) == [b64 |-> text]
b64decode(data) == data.b64

\* The response of get_secret_value holds SecretString or SecretBinary.
SecretString(text) == [field |-> "SecretString", data |-> text]
SecretBinary(text) == [field |-> "SecretBinary", data |-> b64encode(text)]

\* What the secret store holds for each name before the program runs.
RemoteBase == SecretString(json_dumps([k \in {"a", "b"} |-> IF k = "a" THEN PyInt("1") ELSE PyInt("2")]))
RemoteMid == SecretString(json_dumps([k \in {"a"} |-> Str("1")]))
RemoteOverride == SecretBinary(json_dumps([k \in {"b"} |-> PyInt("3")]))
InitialRemote(name) ==
    CASE name = "base" -> RemoteBase
      [] name = "mid" -> RemoteMid
      [] name = "override" -> RemoteOverride

\* -------------------------------------------------------------------- cast

TrueTexts == {"true", "1", "yes"}
FalseTexts == {"false", "0", "no"}
NumericTexts == IntegerLiterals

\* aws_chain_secrets.caster.cast(value, casting_type): the converted value, or
\* CastError. Text is compared as written; the model's texts are lower case.
cast(value, casting_type) ==
    CASE casting_type = "passthrough" -> Return(value)
      [] casting_type = "str" ->
            IF value.t \in {"str", "int", "float", "bool"}
            THEN Return(Str(value.v))
            ELSE Raise("CastError", value.v)
      [] casting_type = "int" ->
            IF value.t = "int" \/ (value.t = "str" /\ value.v \in NumericTexts)
            THEN Return(PyInt(value.v))
            ELSE Raise("CastError", value.v)
      [] casting_type = "float" ->
            IF value.t \in {"int", "float"} \/ (value.t = "str" /\ value.v \in NumericTexts)
            THEN Return(PyFloat(value.v))
            ELSE Raise("CastError", value.v)
      [] casting_type = "bool" ->
            IF value.t = "bool" THEN Return(value)
            ELSE IF value.t \in {"str", "int"} /\ value.v \in TrueTexts THEN Return(PyBool("True"))
            ELSE IF value.t \in {"str", "int"} /\ value.v \in FalseTexts THEN Return(PyBool("False"))
            ELSE Raise("CastError", value.v)

\* SecretsManagerException.from_code(code): the exception of the taxonomy
\* that stands for the store's error code.
from_code(code) == Raise("SecretsManagerException", code)

\* ------------------------------------------------------------------- state

\* The sequences of names a SecretsManager is constructed with: distinct
\* names, and one sequence that repeats a name.
NameSeqs ==
    { <<"base", "override">>,
      <<"base", "mid", "override">>,
      <<"base", "override", "base">> }

VARIABLES
    secret_names,   \* self.secret_names: the names as passed
    _secrets,       \* self._secrets: the dict name -> dict, as a sequence of
                    \* [name, ref] in insertion order; ref is a slot of heap
    heap,           \* the dict objects: heap[ref] is the content of one dict
    _combined,      \* self._combined.maps: the ChainMap's list of refs
    connected,      \* whether the client resource is acquired
    scope,          \* where the caller's with statement is: "outside", "inside"
    remote,         \* the secret store: name -> the response of get_secret_value
    ret,            \* the last call: its arguments, what it returned or raised,
                    \* and the store calls it made
    pre,            \* what the last call found when it began: each name's
                    \* bundle, and the items of the merged view
    nops,           \* the number of calls made so far
    pushed          \* for each name, the bundle as it was at the last update()
                    \* of the name that the store accepted, if there was one

vars == <<secret_names, _secrets, heap, _combined, connected, scope, remote, ret, pre, nops,
          pushed>>

\* The record of pushed: no update yet, or the content update() sent.
NotPushed == [done |-> FALSE, content |-> << >>]
Pushed(content) == [done |-> TRUE, content |-> content]

\* One call of the store's API, as the store sees it.
StoreCall(api, name, text, answer) ==
    [api |-> api, SecretId |-> name, SecretString |-> text, answer |-> answer]

Record(op, name, key, value, ctype, out, calls) ==
    [op |-> op, name |-> name, key |-> key, value |-> value, ctype |-> ctype,
     out |-> out, calls |-> calls]

\* self._secrets: name in self._secrets, self._secrets[name], .values()
HasName(secrets, name) == \E i \in 1..Len(secrets) : secrets[i].name = name
RefOf(secrets, name) == (CHOOSE i \in 1..Len(secrets) : secrets[i].name = name)
SecretsOf(secrets, name) == secrets[RefOf(secrets, name)].ref
SecretsValues(secrets) == [i \in 1..Len(secrets) |-> secrets[i].ref]

\* The names declared at construction, and the content of a name's bundle.
Declared == {secret_names[i] : i \in 1..Len(secret_names)}
Bundle(name) == heap[SecretsOf(_secrets, name)]
Bundles == [n \in Declared |-> Bundle(n)]

\* The maps of ChainMap(*reversed(self._secrets.values())): the dict of the
\* last name first. (ChainMapFlipped: the same without reversed.)
ChainMapFlipped(secrets) == SecretsValues(secrets)
ChainMapOfSecrets(secrets) == Reversed(SecretsValues(secrets))

\* How __init__ leaves the object for the names it is given.
__init__(names) ==
    LET keys == ComprehensionKeys(names)
    IN  /\ secret_names = names
        /\ _secrets = [i \in 1..Len(keys) |-> [name |-> keys[i], ref |-> i]]
        /\ heap = [i \in 1..Len(keys) |-> EmptyDict]
        /\ _combined = ChainMapOfSecrets(_secrets)
        /\ connected = FALSE

\* ----------------------------------------------------------------- lookups

\* ChainMap.__getitem__: the value of the first map that holds the key, or
\* KeyError when none does.
ChainMapGetItem(maps, hp, key) ==
    LET hits == {i \in 1..Len(maps) : key \in DOMAIN hp[maps[i]]}
    IN  IF hits = {}
        THEN Raise("KeyError", key)
        ELSE Return(hp[maps[CHOOSE i \in hits : \A j \in hits : i <= j]][key])

\* ChainMap.keys(): the keys of all the maps.
ChainMapKeys(maps, hp) == UNION {DOMAIN hp[maps[i]] : i \in 1..Len(maps)}

\* ChainMap.items(), as the mapping from each key to its value.
ChainMapItems(maps, hp) ==
    [k \in ChainMapKeys(maps, hp) |-> ChainMapGetItem(maps, hp, k).val]

\* ChainMap.values(): the values of the items, each as often as it occurs.
ChainMapValues(maps, hp) ==
    LET its == ChainMapItems(maps, hp)
    IN  [v \in {its[k] : k \in DOMAIN its} |-> Cardinality({k \in DOMAIN its : its[k] = v})]

\* SecretsManager.keys(), values() and items(): views of self._combined.
keys == [t |-> "KeysView", v |-> ChainMapKeys(_combined, heap)]
values == [t |-> "ValuesView", v |-> ChainMapValues(_combined, heap)]
items == [t |-> "ItemsView", v |-> ChainMapItems(_combined, heap)]

\* What a call finds when it begins.
Found == [bundles |-> Bundles, merged |-> ChainMapItems(_combined, heap)]

\* SecretsManager.get(key, default=default, casting_type=casting_type).
\* (getReturnsNull: get without the test for the absent default.)
getReturnsNull(key, default, casting_type) ==
    LET found == ChainMapGetItem(_combined, heap, key)
    IN  IF found.kind = "raise"
        THEN Return(default)
        ELSE cast(found.val, casting_type)
get(key, default, casting_type) ==
    LET found == ChainMapGetItem(_combined, heap, key)
    IN  IF found.kind = "raise"
        THEN IF IsInstanceNull(default)
             THEN Raise("KeyError", key)
             ELSE Return(default)
        ELSE cast(found.val, casting_type)

\* The defaults of the keyword parameters of get and of __call__, and the
\* value a parameter is bound to in a call with the keyword arguments kwargs.
get_kwdefaults == [default |-> null, casting_type |-> "str"]
call_kwdefaults == [default |-> null, casting_type |-> "str"]
Bound(kwargs, kwdefaults, n) == IF n \in DOMAIN kwargs THEN kwargs[n] ELSE kwdefaults[n]

\* A call get(key, **kwargs).
getWith(key, kwargs) ==
    get(key, Bound(kwargs, get_kwdefaults, "default"),
             Bound(kwargs, get_kwdefaults, "casting_type"))

\* SecretsManager.__call__(key, **kwargs): it binds its own parameters and
\* passes both on to get. (callWithoutDefault: it passes the casting type
\* alone.)
callWithoutDefault(key, kwargs) ==
    getWith(key, Kwargs({"casting_type"}, null, Bound(kwargs, call_kwdefaults, "casting_type")))
__call__(key, kwargs) ==
    getWith(key, Kwargs({"default", "casting_type"},
                        Bound(kwargs, call_kwdefaults, "default"),
                        Bound(kwargs, call_kwdefaults, "casting_type")))

\* The object as constructed, outside any with statement, and the store.
Init ==
    /\ \E names \in NameSeqs : __init__(names)
    /\ scope = "outside"
    /\ remote = [n \in Declared |-> InitialRemote(n)]
    /\ ret = Record("__init__", "", "", None, "", Return(None), << >>)
    /\ pre = Found
    /\ nops = 0
    /\ pushed = [n \in Declared |-> NotPushed]

\* A call of get: it reads, and changes nothing.
Get(key, default, casting_type) ==
    /\ nops < MaxOps
    /\ ret' = Record("get", "", key, default, casting_type, get(key, default, casting_type), << >>)
    /\ pre' = Found
    /\ nops' = nops + 1
    /\ UNCHANGED <<secret_names, _secrets, heap, _combined, connected, scope, remote, pushed>>

\* A call of the object itself, manager(key, **kwargs): it reads, and changes
\* nothing.
Call(key, kwargs) ==
    /\ nops < MaxOps
    /\ ret' = Record("__call__", "", key, kwargs, "", __call__(key, kwargs), << >>)
    /\ pre' = Found
    /\ nops' = nops + 1
    /\ UNCHANGED <<secret_names, _secrets, heap, _combined, connected, scope, remote, pushed>>

\* A call that only reads a view of the merged mapping.
ReadView(op, view) ==
    /\ nops < MaxOps
    /\ ret' = Record(op, "", "", None, "", Return(view), << >>)
    /\ pre' = Found
    /\ nops' = nops + 1
    /\ UNCHANGED <<secret_names, _secrets, heap, _combined, connected, scope, remote, pushed>>

\* Calls of keys(), values() and items().
CallKeys == ReadView("keys", keys)
CallValues == ReadView("values", values)
CallItems == ReadView("items", items)

\* SecretsManager.set(secret_name, key, value): KeyError for a name that is
\* not a key of self._secrets. (SetOrCreate: a set that makes a bundle for
\* such a name, self._secrets.setdefault(secret_name, {})[key] = value.)
SetOrCreate(secret_name, key, value) ==
    /\ nops < MaxOps
    /\ IF HasName(_secrets, secret_name)
       THEN /\ heap' = [heap EXCEPT ![SecretsOf(_secrets, secret_name)] = DictSetItem(@, key, value)]
            /\ _secrets' = _secrets
       ELSE /\ heap' = Append(heap, DictSetItem(EmptyDict, key, value))
            /\ _secrets' = Append(_secrets, [name |-> secret_name, ref |-> Len(heap) + 1])
    /\ ret' = Record("set", secret_name, key, value, "", Return(None), << >>)
    /\ pre' = Found
    /\ nops' = nops + 1
    /\ UNCHANGED <<secret_names, _combined, connected, scope, remote, pushed>>
Set(secret_name, key, value) ==
    /\ nops < MaxOps
    /\ IF HasName(_secrets, secret_name)
       THEN /\ heap' = [heap EXCEPT ![SecretsOf(_secrets, secret_name)] = DictSetItem(@, key, value)]
            /\ ret' = Record("set", secret_name, key, value, "", Return(None), << >>)
       ELSE /\ heap' = heap
            /\ ret' = Record("set", secret_name, key, value, "", Raise("KeyError", secret_name), << >>)
    /\ pre' = Found
    /\ nops' = nops + 1
    /\ UNCHANGED <<secret_names, _secrets, _combined, connected, scope, remote, pushed>>

\* ------------------------------------------------------------------ client

\* aws_chain_secrets.client.Client: __enter__ acquires the connection,
\* __exit__ releases it, and self._client outside the two fails with
\* NotConnectedError.
ClientEnter == TRUE
ClientExit == FALSE
ClientUsable(conn) == conn

\* ------------------------------------------------------------------- fetch

\* self._secrets[secret_name].clear(). (DictKeep: fetch without it.)
DictKeep(hp, ref) == hp
DictClear(hp, ref) == [hp EXCEPT ![ref] = EmptyDict]

\* self._secrets[secret_name].update(content): the dict object that
\* self._secrets and the ChainMap share takes the content. (RebindToNewDict:
\* self._secrets[secret_name] = content, which leaves the ChainMap the old dict.)
RebindToNewDict(st, secret_name, content) ==
    LET at == RefOf(st.secrets, secret_name)
    IN  [st EXCEPT !.heap = Append(st.heap, content),
                   !.secrets = [st.secrets EXCEPT ![at].ref = Len(st.heap) + 1]]
UpdateInPlace(st, secret_name, content) ==
    [st EXCEPT !.heap = [st.heap EXCEPT ![SecretsOf(st.secrets, secret_name)] = DictUpdate(@, content)]]

\* SecretsManager._get_secrets(secret_name), when the store's answer to
\* get_secret_value is the error `code` (fails) or the secret (otherwise):
\* the dict it returns or the exception it raises, and the store call made.
_get_secrets(conn, secret_name, fails, code) ==
    IF ~ClientUsable(conn)
    THEN [out |-> Raise("NotConnectedError", ""), dict |-> EmptyDict, calls |-> << >>]
    ELSE LET call == <<StoreCall("get_secret_value", secret_name, EmptyDict, IF fails THEN code ELSE Ok)>>
             response == remote[secret_name]
         IN  IF fails
             THEN [out |-> from_code(code), dict |-> EmptyDict, calls |-> call]
             ELSE IF response.field = "SecretString"
             THEN [out |-> Return(None), dict |-> json_loads(response.data), calls |-> call]
             ELSE [out |-> Return(None), dict |-> json_loads(b64decode(response.data)), calls |-> call]

\* SecretsManager.fetch() from the i-th name on; st holds self._secrets, the
\* heap and the store calls made so far. The store fails at the failAt-th
\* name (0: at none) with the error `code`. (fetchFromContinuing: a fetch
\* that goes on to the next name when a read fails and raises the error at
\* the end. fetchFromReadFirst: a fetch that clears a bundle once its read has
\* succeeded.)
RECURSIVE fetchFromContinuing(_, _, _, _, _)
fetchFromContinuing(i, st, conn, failAt, code) ==
    IF i > Len(secret_names)
    THEN st
    ELSE LET secret_name == secret_names[i]
             cleared == [st EXCEPT !.heap = DictClear(st.heap, SecretsOf(st.secrets, secret_name))]
             got == _get_secrets(conn, secret_name, failAt = i, code)
             called == [cleared EXCEPT !.calls = cleared.calls \o got.calls]
         IN  IF got.out.kind = "raise"
             THEN fetchFromContinuing(i + 1, [called EXCEPT !.out = got.out], conn, failAt, code)
             ELSE fetchFromContinuing(i + 1, UpdateInPlace(called, secret_name, got.dict),
                                      conn, failAt, code)
RECURSIVE fetchFromReadFirst(_, _, _, _, _)
fetchFromReadFirst(i, st, conn, failAt, code) ==
    IF i > Len(secret_names)
    THEN [st EXCEPT !.out = Return(None)]
    ELSE LET secret_name == secret_names[i]
             got == _get_secrets(conn, secret_name, failAt = i, code)
             called == [st EXCEPT !.calls = st.calls \o got.calls]
             cleared == [called EXCEPT !.heap = DictClear(called.heap, SecretsOf(called.secrets, secret_name))]
         IN  IF got.out.kind = "raise"
             THEN [called EXCEPT !.out = got.out]
             ELSE fetchFromReadFirst(i + 1, UpdateInPlace(cleared, secret_name, got.dict),
                                     conn, failAt, code)
RECURSIVE fetchFrom(_, _, _, _, _)
fetchFrom(i, st, conn, failAt, code) ==
    IF i > Len(secret_names)
    THEN [st EXCEPT !.out = Return(None)]
    ELSE LET secret_name == secret_names[i]
             cleared == [st EXCEPT !.heap = DictClear(st.heap, SecretsOf(st.secrets, secret_name))]
             got == _get_secrets(conn, secret_name, failAt = i, code)
             called == [cleared EXCEPT !.calls = cleared.calls \o got.calls]
         IN  IF got.out.kind = "raise"
             THEN [called EXCEPT !.out = got.out]
             ELSE fetchFrom(i + 1, UpdateInPlace(called, secret_name, got.dict), conn, failAt, code)

fetch(conn, failAt, code) ==
    fetchFrom(1, [secrets |-> _secrets, heap |-> heap, calls |-> << >>, out |-> Return(None)],
              conn, failAt, code)

Fetch(failAt, code) ==
    /\ nops < MaxOps
    /\ LET done == fetch(connected, failAt, code)
       IN  /\ _secrets' = done.secrets
           /\ heap' = done.heap
           /\ ret' = Record("fetch", "", "", None, "", done.out, done.calls)
    /\ pre' = Found
    /\ nops' = nops + 1
    /\ UNCHANGED <<secret_names, _combined, connected, scope, remote, pushed>>

\* ------------------------------------------------------------------ update

\* json.dumps(self._secrets[secret_name]): what update() sends.
\* (update_payload_merged: json.dumps of the merged view.)
update_payload_merged(secret_name) ==
    json_dumps([k \in ChainMapKeys(_combined, heap) |-> ChainMapGetItem(_combined, heap, k).val])
update_payload(secret_name) == json_dumps(heap[SecretsOf(_secrets, secret_name)])

\* SecretsManager.update(secret_name), when the store's answer to
\* update_secret is the error `code` (fails) or success. self._client is
\* evaluated first, then self._secrets[secret_name], then the call is made; a
\* ClientError of the call is not caught. (UpdateAndForget: an update that
\* empties the local bundle once it has sent it. UpdateWithoutWrite: an update
\* that returns without the store having taken the bundle.)
UpdateWithoutWrite(secret_name, fails, code) ==
    /\ nops < MaxOps
    /\ IF ~ClientUsable(connected)
       THEN ret' = Record("update", secret_name, "", None, "", Raise("NotConnectedError", ""), << >>)
       ELSE IF ~HasName(_secrets, secret_name)
       THEN ret' = Record("update", secret_name, "", None, "", Raise("KeyError", secret_name), << >>)
       ELSE LET text == update_payload(secret_name)
                call == <<StoreCall("update_secret", secret_name, text, IF fails THEN code ELSE Ok)>>
            IN  ret' = Record("update", secret_name, "", None, "",
                              IF fails THEN Raise("ClientError", code) ELSE Return(None), call)
    /\ pushed' = IF ret'.out.kind = "return"
                 THEN [pushed EXCEPT ![secret_name] = Pushed(heap[SecretsOf(_secrets, secret_name)])]
                 ELSE pushed
    /\ pre' = Found
    /\ nops' = nops + 1
    /\ UNCHANGED <<secret_names, _secrets, heap, _combined, connected, scope, remote>>
UpdateAndForget(secret_name, fails, code) ==
    /\ nops < MaxOps
    /\ IF ~ClientUsable(connected) \/ ~HasName(_secrets, secret_name)
       THEN /\ ret' = Record("update", secret_name, "", None, "", Raise("Error", ""), << >>)
            /\ remote' = remote
            /\ heap' = heap
       ELSE LET text == update_payload(secret_name)
                call == <<StoreCall("update_secret", secret_name, text, IF fails THEN code ELSE Ok)>>
            IN  /\ ret' = Record("update", secret_name, "", None, "",
                                 IF fails THEN Raise("ClientError", code) ELSE Return(None), call)
                /\ remote' = IF fails THEN remote ELSE [remote EXCEPT ![secret_name] = SecretString(text)]
                /\ heap' = DictClear(heap, SecretsOf(_secrets, secret_name))
    /\ pre' = Found
    /\ nops' = nops + 1
    /\ pushed' = IF ret'.out.kind = "return"
                 THEN [pushed EXCEPT ![secret_name] = Pushed(heap[SecretsOf(_secrets, secret_name)])]
                 ELSE pushed
    /\ UNCHANGED <<secret_names, _secrets, _combined, connected, scope>>
Update(secret_name, fails, code) ==
    /\ nops < MaxOps
    /\ IF ~ClientUsable(connected)
       THEN /\ ret' = Record("update", secret_name, "", None, "", Raise("NotConnectedError", ""), << >>)
            /\ remote' = remote
       ELSE IF ~HasName(_secrets, secret_name)
       THEN /\ ret' = Record("update", secret_name, "", None, "", Raise("KeyError", secret_name), << >>)
            /\ remote' = remote
       ELSE LET text == update_payload(secret_name)
                call == <<StoreCall("update_secret", secret_name, text, IF fails THEN code ELSE Ok)>>
            IN  IF fails
                THEN /\ ret' = Record("update", secret_name, "", None, "", Raise("ClientError", code), call)
                     /\ remote' = remote
                ELSE /\ ret' = Record("update", secret_name, "", None, "", Return(None), call)
                     /\ remote' = [remote EXCEPT ![secret_name] = SecretString(text)]
    /\ pre' = Found
    /\ nops' = nops + 1
    /\ pushed' = IF ret'.out.kind = "return"
                 THEN [pushed EXCEPT ![secret_name] = Pushed(heap[SecretsOf(_secrets, secret_name)])]
                 ELSE pushed
    /\ UNCHANGED <<secret_names, _secrets, heap, _combined, connected, scope>>

\* ------------------------------------------------------------------- scope

\* `with manager:` calls SecretsManager.__enter__: Client.__enter__, then
\* fetch(). An exception of __enter__ leaves the with statement without
\* __exit__ being called.
Enter(failAt, code) ==
    /\ nops < MaxOps
    /\ scope = "outside"
    /\ connected' = ClientEnter
    /\ LET done == fetch(connected', failAt, code)
       IN  /\ _secrets' = done.secrets
           /\ heap' = done.heap
           /\ ret' = Record("__enter__", "", "", None, "", done.out, done.calls)
           /\ scope' = IF done.out.kind = "raise" THEN "outside" ELSE "inside"
    /\ pre' = Found
    /\ nops' = nops + 1
    /\ UNCHANGED <<secret_names, _combined, remote, pushed>>

\* The with statement's body ends, normally or with an exception (failed):
\* both ways the with statement calls __exit__, which is Client.__exit__.
Exit(failed) ==
    /\ nops < MaxOps
    /\ scope = "inside"
    /\ connected' = ClientExit
    /\ scope' = "outside"
    /\ ret' = Record("__exit__", "", "", None, "",
                     IF failed THEN Raise("BodyError", "") ELSE Return(None), << >>)
    /\ pre' = Found
    /\ nops' = nops + 1
    /\ UNCHANGED <<secret_names, _secrets, heap, _combined, remote, pushed>>

\* Where the store fails during one fetch: nowhere, or at the at-th declared
\* name with an error code.
StoreFailures ==
    {[at |-> 0, code |-> Ok]} \cup [at : 1..Len(secret_names), code : ErrorCodes]

Next ==
    \/ \E k \in Keys, a \in GetArgs : Get(k, a[1], a[2])
    \/ \E k \in Keys, kw \in CallArgs : Call(k, kw)
    \/ CallKeys
    \/ CallValues
    \/ CallItems
    \/ \E n \in AllNames, k \in Keys, v \in SetValues : Set(n, k, v)
    \/ \E f \in StoreFailures : Fetch(f.at, f.code)
    \/ \E n \in AllNames, c \in {Ok} \cup ErrorCodes : Update(n, c # Ok, c)
    \/ \E f \in StoreFailures : Enter(f.at, f.code)
    \/ \E f \in BOOLEAN : Exit(f)

Spec == Init /\ [][Next]_vars

\* ------------------------------------------------------- write and read back

\* A manager of two names whose callers also set a tuple, which json.dumps
\* accepts: the calls that write bundles, send them and read them back.
RoundTripValues == {Str("x"), PyTuple("x")}

RoundTripInit == Init /\ secret_names = <<"base", "override">>

RoundTripNext ==
    \/ \E k \in Keys : Get(k, null, "passthrough")
    \/ \E n \in AllNames, k \in Keys, v \in RoundTripValues : Set(n, k, v)
    \/ \E f \in StoreFailures : Fetch(f.at, f.code)
    \/ \E n \in AllNames, c \in {Ok} \cup ErrorCodes : Update(n, c # Ok, c)
    \/ \E f \in StoreFailures : Enter(f.at, f.code)
    \/ \E f \in BOOLEAN : Exit(f)

RoundTripSpec == RoundTripInit /\ [][RoundTripNext]_vars

\* ------------------------------------------------------------------ claims

\* No name is passed twice.
DistinctNames ==
    \A i, j \in 1..Len(secret_names) : secret_names[i] = secret_names[j] => i = j

\* The places in the declared sequence whose bundle holds the key, and the
\* value of the bundle declared last among them.
Holders(key) == {i \in 1..Len(secret_names) : key \in DOMAIN Bundle(secret_names[i])}
LastHolder(key) == CHOOSE i \in Holders(key) : \A j \in Holders(key) : j <= i
Winner(key) == Bundle(secret_names[LastHolder(key)])[key]

\* Name n has a place in the declared sequence after a place of name b.
DeclaredAfter(n, b) ==
    /\ n # b
    /\ \E i, j \in 1..Len(secret_names) : i < j /\ secret_names[i] = b /\ secret_names[j] = n

\* The JSON object a response of the store carries.
WireText(response) ==
    IF response.field = "SecretString" THEN response.data ELSE response.data.b64

\* C1: with distinct names, in every reachable state, get of a key that some
\* bundle holds is the cast of the value of the bundle declared last among
\* the bundles that hold it; the last get returned exactly that.
C1_PrecedenceLaw ==
    DistinctNames =>
        /\ \A k \in Keys : Holders(k) # {} =>
              \A a \in GetArgs : get(k, a[1], a[2]) = cast(Winner(k), a[2])
        /\ (ret.op = "get" /\ Holders(ret.key) # {}) => ret.out = cast(Winner(ret.key), ret.ctype)

\* C1 witness: three distinct bundles all hold the key of the last get, two of
\* them with different values, and get returned the last bundle's value.
C1_Witness ==
    /\ DistinctNames
    /\ ret.op = "get"
    /\ ret.ctype = "passthrough"
    /\ Cardinality(Holders(ret.key)) = 3
    /\ Bundle(secret_names[2])[ret.key] # Bundle(secret_names[3])[ret.key]
    /\ ret.out = Return(Bundle(secret_names[3])[ret.key])

\* C2: right after set(B, x, v) on a declared bundle B, when no bundle
\* declared after B holds x, get(x) is the cast of v, before any fetch and
\* after fetches alike.
C2_LocalWriteVisible ==
    (/\ ret.op = "set"
     /\ ret.out.kind = "return"
     /\ \A n \in Declared : DeclaredAfter(n, ret.name) => ret.key \notin DOMAIN Bundle(n))
    => \A a \in GetArgs : get(ret.key, a[1], a[2]) = cast(ret.value, a[2])

\* C2 witness: inside the scope (so after the fetch of __enter__) a set wrote a
\* value the bundle did not hold, a bundle declared earlier holds another
\* value for the key, and get sees the written value.
C2_Witness ==
    /\ scope = "inside"
    /\ ret.op = "set"
    /\ ret.out.kind = "return"
    /\ \A n \in Declared : DeclaredAfter(n, ret.name) => ret.key \notin DOMAIN Bundle(n)
    /\ ret.key \notin DOMAIN pre.bundles[ret.name]
    /\ \E n \in Declared : /\ DeclaredAfter(ret.name, n)
                           /\ ret.key \in DOMAIN Bundle(n)
                           /\ Bundle(n)[ret.key] # ret.value
    /\ get(ret.key, null, "passthrough") = Return(ret.value)

\* C3 (as claimed): get of a key no bundle holds, with a default that is not
\* the sentinel `null` itself, returns that default, uncast.
C3_DefaultReturnedUncast ==
    (ret.op = "get" /\ Holders(ret.key) = {} /\ ret.value # null)
    => ret.out = Return(ret.value)

\* C4: get of a key no bundle holds, with no default (the sentinel), raises
\* KeyError carrying the key, never returns, and leaves every bundle as it was.
C4_MissingKeyRaises ==
    /\ \A k \in Keys : Holders(k) = {} =>
          \A t \in CastingTypes : get(k, null, t) = Raise("KeyError", k)
    /\ (ret.op = "get" /\ Holders(ret.key) = {} /\ ret.value = null)
       => (ret.out = Raise("KeyError", ret.key) /\ Bundles = pre.bundles)

\* C4 witness: a get without default missed its key while the bundles hold
\* other keys.
C4_Witness ==
    /\ ret.op = "get"
    /\ ret.value = null
    /\ Holders(ret.key) = {}
    /\ ret.out.kind = "raise"
    /\ \E n \in Declared : Bundle(n) # EmptyDict

\* C5: after a fetch in which every store call succeeded (fetch() or the one
\* of __enter__), every declared bundle holds exactly the keys of its remote
\* JSON object, each with the remote value.
C5_FetchMirrorsRemote ==
    (ret.op \in {"fetch", "__enter__"} /\ ret.out.kind = "return")
    => \A n \in Declared :
          /\ DOMAIN Bundle(n) = DOMAIN WireText(remote[n])
          /\ \A k \in DOMAIN Bundle(n) : ToJson(Bundle(n)[k]) = WireText(remote[n])[k]

\* C5 witness: a successful fetch removed a key that a bundle held before it.
C5_Witness ==
    /\ ret.op \in {"fetch", "__enter__"}
    /\ ret.out.kind = "return"
    /\ \E n \in Declared : \E k \in DOMAIN pre.bundles[n] : k \notin DOMAIN Bundle(n)

\* C6: update(name) makes one store call, update_secret under the id name,
\* whose payload is the JSON of the named bundle's own keys and values; on
\* success the store holds that payload for name.
C6_UpdatePushesOwnBundle ==
    ret.op = "update" =>
        /\ ret.out.kind = "return" => Len(ret.calls) = 1
        /\ \A i \in 1..Len(ret.calls) :
              /\ Len(ret.calls) = 1
              /\ ret.calls[i].api = "update_secret"
              /\ ret.calls[i].SecretId = ret.name
              /\ DOMAIN ret.calls[i].SecretString = DOMAIN Bundle(ret.name)
              /\ \A k \in DOMAIN Bundle(ret.name) :
                    ret.calls[i].SecretString[k] = ToJson(Bundle(ret.name)[k])
              /\ ret.out.kind = "return" =>
                    remote[ret.name] = SecretString(ret.calls[i].SecretString)

\* C6 witness: an update succeeded for a bundle one of whose keys is shadowed
\* in the merged view by another value, while another bundle holds a key the
\* named bundle does not.
C6_Witness ==
    /\ ret.op = "update"
    /\ ret.out.kind = "return"
    /\ \E k \in DOMAIN Bundle(ret.name) :
          get(k, null, "passthrough") # Return(Bundle(ret.name)[k])
    /\ ChainMapKeys(_combined, heap) \ DOMAIN Bundle(ret.name) # {}

\* C7 (as claimed): once the with statement is over, however it ended, the
\* connection acquired on entering it is released.
C7_ReleasedWhenScopeEnds == scope = "outside" => ~connected

\* C8 (as claimed): a store call of fetch or update that the store answered
\* with an error reaches the caller as the exception from_code makes of it.
C8_StoreFailuresTranslated ==
    \A i \in 1..Len(ret.calls) :
        ret.calls[i].answer # Ok => ret.out = from_code(ret.calls[i].answer)

\* C9 (as claimed): fetch and update called while the connection is not
\* acquired raise NotConnectedError, call the store not at all and leave
\* every bundle as it was.
C9_NotConnectedNoEffect ==
    (ret.op \in {"fetch", "update"} /\ ~connected)
    => (ret.out = Raise("NotConnectedError", "") /\ ret.calls = << >> /\ Bundles = pre.bundles)

\* C10: after update(name), succeeding or failing, every bundle holds what
\* it held when the call began, and the merged view has the same keys and
\* values, so that get, keys, values and items answer as before.
C10_UpdateChangesNothingLocal ==
    ret.op = "update" =>
        /\ Bundles = pre.bundles
        /\ ChainMapItems(_combined, heap) = pre.merged
        /\ \A k \in Keys :
              get(k, None, "passthrough") =
                  IF k \in DOMAIN pre.merged THEN Return(pre.merged[k]) ELSE Return(None)

\* C10 witness: an update succeeded and one failed at the store, each for a
\* bundle that holds keys.
C10_Witness ==
    /\ ret.op = "update"
    /\ Len(ret.calls) = 1
    /\ ret.calls[1].answer # Ok
    /\ Bundle(ret.name) # EmptyDict
    /\ \E n \in Declared : WireText(remote[n]) # WireText(InitialRemote(n))

\* C11 (as claimed): in every reachable state keys() is exactly the set of the
\* keys that some bundle holds, items() pairs each of them with the value of
\* the bundle declared last among its holders, which is what get resolves, and
\* the last call of keys() or items() returned just that; with
\* [base, override], base = {a: 1, b: 2} and override = {b: 3}, the keys are
\* {a, b} and the items a -> 1, b -> 3.
C11_ViewsResolveLastDeclared ==
    /\ keys.v = UNION {DOMAIN Bundle(n) : n \in Declared}
    /\ DOMAIN items.v = keys.v
    /\ \A k \in keys.v :
          /\ items.v[k] = Winner(k)
          /\ get(k, null, "passthrough") = Return(items.v[k])
    /\ ret.op = "keys" => ret.out.val.v = UNION {DOMAIN Bundle(n) : n \in Declared}
    /\ ret.op = "items" =>
          /\ DOMAIN ret.out.val.v = UNION {DOMAIN Bundle(n) : n \in Declared}
          /\ \A k \in DOMAIN ret.out.val.v : ret.out.val.v[k] = Winner(k)
    /\ (/\ secret_names = <<"base", "override">>
        /\ json_dumps(Bundle("base")) = WireText(RemoteBase)
        /\ json_dumps(Bundle("override")) = WireText(RemoteOverride))
       => /\ keys.v = {"a", "b"}
          /\ items.v["a"] = PyInt("1")
          /\ items.v["b"] = PyInt("3")

\* C12: in every reachable state the object called with a key and any of the
\* keyword arguments gives what get gives for the same arguments, the value
\* or the error; called with a keyword argument left out it gives what get
\* gives for the sentinel `null` as the default and for str as the casting
\* type; the last call of the object gave just that and changed no bundle.
C12_CallIsGet ==
    /\ \A k \in Keys, kw \in AllKwargs :
          /\ __call__(k, kw) = getWith(k, kw)
          /\ __call__(k, kw) = get(k, IF "default" \in DOMAIN kw THEN kw["default"] ELSE null,
                                      IF "casting_type" \in DOMAIN kw
                                      THEN kw["casting_type"] ELSE "str")
    /\ ret.op = "__call__" =>
          /\ ret.out = getWith(ret.key, ret.value)
          /\ Bundles = pre.bundles
          /\ Found = pre

\* C12 witness: the object was called with a key alone, a key two bundles
\* hold with the number 3 in the winning one, and returned the text "3".
C12_Witness ==
    /\ ret.op = "__call__"
    /\ DOMAIN ret.value = {}
    /\ Cardinality(Holders(ret.key)) >= 2
    /\ Winner(ret.key) = PyInt("3")
    /\ ret.out = Return(Str("3"))

\* The last call was a fetch, by itself or in __enter__, and the store failed
\* the read of the name at place i of the declared sequence.
FetchFailedAt(i) ==
    /\ ret.op \in {"fetch", "__enter__"}
    /\ Len(ret.calls) = i
    /\ i >= 1
    /\ ret.calls[i].answer # Ok

\* The store reads of the last fetch were made for the declared names in
\* their order, one for each place up to the last read, and no read but the
\* last one failed; a fetch that returned read every place.
FetchReadsInOrder ==
    ret.op \in {"fetch", "__enter__"} =>
        /\ Len(ret.calls) <= Len(secret_names)
        /\ \A j \in 1..Len(ret.calls) :
              /\ ret.calls[j].api = "get_secret_value"
              /\ ret.calls[j].SecretId = secret_names[j]
              /\ j < Len(ret.calls) => ret.calls[j].answer = Ok
        /\ ret.out.kind = "return" => Len(ret.calls) = Len(secret_names)

\* What a successful read of name n puts into its bundle.
RemoteContent(n) == json_loads(WireText(remote[n]))

\* C13 (as claimed): fetch reads the declared names in their order, one read
\* for each, and stops at the first read that fails: the error reaches the
\* caller, every bundle declared at a place before the failing one holds its
\* remote content, and every bundle declared at a place after it keeps the
\* content it had before the fetch.
C13_AbortOnFirstFailure ==
    /\ FetchReadsInOrder
    /\ \A i \in 1..Len(secret_names) : FetchFailedAt(i) =>
          /\ ret.out = from_code(ret.calls[i].answer)
          /\ \A j \in 1..Len(secret_names) :
                /\ j < i => Bundle(secret_names[j]) = RemoteContent(secret_names[j])
                /\ j > i => Bundle(secret_names[j]) = pre.bundles[secret_names[j]]

\* C13 (amended): fetch reads the declared names in their order, one read for
\* each place, and stops at the first read that fails: the error reaches the
\* caller, the bundle of the failing name is empty, every other bundle whose
\* name has a place before the failing one holds its remote content, and
\* every bundle whose name has no place up to the failing one keeps the
\* content it had before the fetch.
C13_AbortKeepsRefreshed ==
    /\ FetchReadsInOrder
    /\ \A i \in 1..Len(secret_names) : FetchFailedAt(i) =>
          /\ ret.out = from_code(ret.calls[i].answer)
          /\ \A n \in Declared :
                IF n = secret_names[i]
                THEN Bundle(n) = EmptyDict
                ELSE IF \E j \in 1..(i - 1) : secret_names[j] = n
                THEN Bundle(n) = RemoteContent(n)
                ELSE Bundle(n) = pre.bundles[n]

\* C13 witness: a fetch over three names failed at the second; the first
\* bundle changed to its remote content and the third kept a content that is
\* not the remote one.
C13_Witness ==
    /\ ret.op = "fetch"
    /\ Len(secret_names) = 3
    /\ FetchFailedAt(2)
    /\ ret.out.kind = "raise"
    /\ Bundle(secret_names[1]) # pre.bundles[secret_names[1]]
    /\ Bundle(secret_names[3]) # EmptyDict
    /\ Bundle(secret_names[3]) # RemoteContent(secret_names[3])

NamesBefore(i, n) == {secret_names[j] : j \in 1..(i - 1)} \ {n}

\* C15 (as claimed): when the store fails the read of a name during fetch, the
\* bundle of that name is left empty; every key that it alone held before the
\* fetch is absent from the merged view, and every key that it held before
\* the fetch together with a bundle declared before it resolves to the value
\* of a bundle declared before it.
C15_FailedReadLosesItsKeys ==
    \A i \in 1..Len(secret_names) : FetchFailedAt(i) =>
        LET n == secret_names[i]
        IN  /\ Bundle(n) = EmptyDict
            /\ \A k \in DOMAIN pre.bundles[n] :
                  /\ (\A m \in Declared \ {n} : k \notin DOMAIN pre.bundles[m]) =>
                        /\ k \notin keys.v
                        /\ get(k, null, "passthrough") = Raise("KeyError", k)
                  /\ (\E m \in NamesBefore(i, n) : k \in DOMAIN pre.bundles[m]) =>
                        \E m \in NamesBefore(i, n) :
                            /\ k \in DOMAIN Bundle(m)
                            /\ get(k, null, "passthrough") = Return(Bundle(m)[k])

\* C15 (amended): when the store fails the read of a name during fetch, the
\* bundle of that name is left empty, whatever it held; every key that no
\* other bundle holds after the fetch is absent from the merged view, and
\* every key that it held before the fetch and another bundle holds after the
\* fetch resolves to the value of another bundle: with distinct names and the
\* failed bundle the one that get resolved the key to, a bundle declared
\* before it.
C15_FailedReadEmptiesBundle ==
    \A i \in 1..Len(secret_names) : FetchFailedAt(i) =>
        LET n == secret_names[i]
            others == Declared \ {n}
        IN  /\ Bundle(n) = EmptyDict
            /\ n \in DOMAIN pre.bundles
            /\ \A k \in Keys :
                  (\A m \in others : k \notin DOMAIN Bundle(m)) =>
                        /\ k \notin keys.v
                        /\ get(k, null, "passthrough") = Raise("KeyError", k)
            /\ \A k \in DOMAIN pre.bundles[n] :
                  (\E m \in others : k \in DOMAIN Bundle(m)) =>
                        /\ \E m \in others :
                              /\ k \in DOMAIN Bundle(m)
                              /\ get(k, null, "passthrough") = Return(Bundle(m)[k])
                        /\ (DistinctNames /\ pre.merged[k] = pre.bundles[n][k]
                            /\ \A j \in (i + 1)..Len(secret_names) :
                                   k \notin DOMAIN pre.bundles[secret_names[j]]) =>
                              \E m \in NamesBefore(i, n) :
                                  /\ k \in DOMAIN Bundle(m)
                                  /\ get(k, null, "passthrough") = Return(Bundle(m)[k])

\* C15 witness: a fetch failed at the last of two or three distinct names,
\* whose bundle held the winning value of a key that an earlier bundle held
\* too; the bundle is empty now and get gives the earlier bundle's value, not
\* the value it gave before.
C15_Witness ==
    /\ DistinctNames
    /\ FetchFailedAt(Len(secret_names))
    /\ LET n == secret_names[Len(secret_names)]
       IN  /\ pre.bundles[n] # EmptyDict
           /\ Bundle(n) = EmptyDict
           /\ \E k \in DOMAIN pre.bundles[n] :
                 /\ pre.merged[k] = pre.bundles[n][k]
                 /\ k \in keys.v
                 /\ get(k, null, "passthrough") # Return(pre.merged[k])

\* C17: in every reachable state the bundles are those of the names passed at
\* construction, one for each; the last set or update of a name that was not
\* passed raised an error (KeyError; for update outside the with statement,
\* NotConnectedError), sent nothing to the store and left every bundle and
\* the merged view as they were.
C17_BundlesFixedAtConstruction ==
    /\ {_secrets[i].name : i \in 1..Len(_secrets)} = Declared
    /\ Len(_secrets) = Cardinality(Declared)
    /\ UndeclaredName \notin Declared
    /\ (ret.op \in {"set", "update"} /\ ret.name \notin Declared) =>
          /\ ret.out.kind = "raise"
          /\ ret.out \in {Raise("KeyError", ret.name), Raise("NotConnectedError", "")}
          /\ ret.op = "set" => ret.out = Raise("KeyError", ret.name)
          /\ ret.calls = << >>
          /\ Bundles = pre.bundles
          /\ ChainMapItems(_combined, heap) = pre.merged
          /\ ~HasName(_secrets, ret.name)

\* C17 witness: inside the with statement, with a bundle that is not empty,
\* update of a name that was not passed raised KeyError.
C17_Witness ==
    /\ ret.op = "update"
    /\ ret.name = UndeclaredName
    /\ connected
    /\ scope = "inside"
    /\ ret.out = Raise("KeyError", UndeclaredName)
    /\ \E n \in Declared : Bundle(n) # EmptyDict

\* The last call was a fetch, by itself or in __enter__, that returned.
FetchReturned == ret.op \in {"fetch", "__enter__"} /\ ret.out.kind = "return"

\* The keys bundle n held before the last call that the store does not hold
\* for n are not in the bundle.
LocalOnlyKeysLost(n) ==
    \A k \in DOMAIN pre.bundles[n] : k \notin DOMAIN WireText(remote[n]) => k \notin DOMAIN Bundle(n)

\* Every value of the dict is of a type json.loads produces.
JsonNative(d) ==
    \A k \in DOMAIN d : d[k].t \in {"str", "int", "float", "bool", "NoneType", "list"}

\* C16 (as claimed): after a fetch that returned, the bundle of every name that
\* an update has sent holds exactly the content it had at the last such
\* update, and a bundle that no update has sent has lost the keys the store
\* does not hold for it.
C16_RoundTripExact ==
    FetchReturned =>
        \A n \in Declared :
            /\ pushed[n].done => Bundle(n) = pushed[n].content
            /\ ~pushed[n].done =>
                  /\ remote[n] = InitialRemote(n)
                  /\ LocalOnlyKeysLost(n)

\* C16 (amended): after a fetch that returned, the bundle of every name that an
\* update has sent holds what json.loads reads from the json.dumps of the
\* content it had at the last such update: the same keys, and the same values
\* where these are of the types JSON has, so exactly that content when all of
\* them are, and a list for a tuple; a bundle that no update has sent has
\* lost the keys the store does not hold for it.
C16_RoundTripThroughJson ==
    FetchReturned =>
        \A n \in Declared :
            /\ pushed[n].done =>
                  /\ Bundle(n) = json_loads(json_dumps(pushed[n].content))
                  /\ DOMAIN Bundle(n) = DOMAIN pushed[n].content
                  /\ \A k \in DOMAIN Bundle(n) :
                        IF pushed[n].content[k].t = "tuple"
                        THEN Bundle(n)[k] = PyList(pushed[n].content[k].v)
                        ELSE Bundle(n)[k] = pushed[n].content[k]
                  /\ JsonNative(pushed[n].content) => Bundle(n) = pushed[n].content
                  /\ LocalOnlyKeysLost(n)
            /\ ~pushed[n].done =>
                  /\ remote[n] = InitialRemote(n)
                  /\ LocalOnlyKeysLost(n)

\* C16 witness: a bundle holding a tuple set by the caller was sent by update,
\* and after the fetch that followed it holds a list for the tuple and its
\* other keys as they were.
C16_Witness ==
    /\ FetchReturned
    /\ ret.op = "fetch"
    /\ \E n \in Declared :
          /\ pushed[n].done
          /\ \E k \in DOMAIN pushed[n].content :
                /\ pushed[n].content[k] = PyTuple("x")
                /\ Bundle(n)[k] = PyList("x")
          /\ \E k \in DOMAIN pushed[n].content :
                /\ pushed[n].content[k].t = "int"
                /\ Bundle(n)[k] = pushed[n].content[k]

====
